---- MODULE Spec2Model ----
(***************************************************************************)
(* Model of the esp32-eink cloud side: the calendar Lambda                 *)
(* (infrastructure/lambda/calendar/index.py) and the weather Lambda        *)
(* (infrastructure/lambda/weather/index.py).                               *)
(*                                                                         *)
(* Text is a sequence of Unicode code points, so that slicing ([:100],     *)
(* [:50]), the 'T' test, ISO parsing and the length of json.dumps are      *)
(* computed the way the Python code computes them.                         *)
(***************************************************************************)
EXTENDS Integers, Sequences, FiniteSets, TLC

VARIABLES
    pc,              \* position of the calendar handler
    CALENDAR_ID,     \* os.environ.get('CALENDAR_ID', 'primary')
    rawEvents,       \* events_result.get('items', []) of this invocation
    now,             \* last value the wall clock returned (a tick, see UtcNow)
    events,          \* handler: events = fetch_calendar_events()
    payload,         \* handler: payload
    payload_size,    \* handler: payload_size
    trimmed_events,  \* handler: trimmed_events
    idx,             \* handler: position of the for loop (i + 1)
    test_evt,        \* handler: test_evt
    test_payload,    \* handler: test_payload
    test_size,       \* handler: test_size
    accepted_size,   \* test_size of the trial that last appended to trimmed_events
    log,             \* the per-event lines the loop prints: <<i, level>>
    published,       \* payloads handed to iot_client.publish
    shadow,          \* payloads handed to iot_client.update_thing_shadow
    statusCode,      \* 'statusCode' of the handler's return value (0: not returned)
    nPc,             \* normalizer run: position
    nStart, nEnd,    \* normalizer run: start and end of the item
    nEndDt,          \* normalizer run: end_dt
    nOut,            \* normalizer run: formatted_event
    fcPc,            \* forecast run: position
    fcNow,           \* forecast run: now, in seconds since the epoch
    fcResponse,      \* forecast run: what urlopen / json.loads deliver
    fcList,          \* forecast run: data['list'] once the response is parsed
    fcK,             \* forecast run: position in target_hours_offset
    fcChosen,        \* forecast run: position in data['list'] of each closest_item
    forecast_data,   \* forecast run: forecast_data
    fcOut,           \* forecast run: the list fetch_forecast returned
    wxPc,            \* position of the weather handler
    wxResponse,      \* weather handler: what urlopen / json.loads deliver to fetch_weather
    weather,         \* weather handler: weather = fetch_weather()
    forecast,        \* weather handler: forecast = fetch_forecast()
    wxNow,           \* weather handler: now (a tick, see UtcNow)
    wxPayload,       \* weather handler: payload
    wxPublished,     \* payloads the weather handler handed to iot_client.publish
    wxShadow,        \* payloads it handed to iot_client.update_thing_shadow
    wxStatusCode,    \* 'statusCode' of its return value (0: not returned)
    wxBody           \* 'body' of its return value

normVars == <<nPc, nStart, nEnd, nEndDt, nOut>>
fcVars == <<fcPc, fcNow, fcResponse, fcList, fcK, fcChosen, forecast_data, fcOut>>
calVars == <<pc, CALENDAR_ID, rawEvents, now, events, payload, payload_size,
             trimmed_events, idx, test_evt, test_payload, test_size,
             accepted_size, log, published, shadow, statusCode>>
wxVars == <<wxPc, wxResponse, weather, forecast, wxNow, wxPayload, wxPublished,
            wxShadow, wxStatusCode, wxBody>>
vars == <<calVars, normVars, fcVars, wxVars>>

(***************************************************************************)
(* Bounds of the model.                                                    *)
(***************************************************************************)
MaxEvents == 3      \* longest mixed event list the calendar API returns
MaxCopies == 10     \* longest list of equal events the calendar API returns
MaxTick == 2        \* clock values a run can see: 0..MaxTick half seconds

(***************************************************************************)
(* Text helpers.                                                           *)
(***************************************************************************)
Min(a, b) == IF a <= b THEN a ELSE b

\* s[:n]
Take(s, n) == SubSeq(s, 1, Min(n, Len(s)))

\* c * n
Rep(c, n) == [k \in 1..n |-> c]

\* c in s
Contains(s, c) == \E k \in 1..Len(s) : s[k] = c

IsDigit(c) == c \in 48..57

\* two and four decimal digits, as %d.%m / %H:%M / isoformat print them
Pad2(n) == <<48 + (n \div 10), 48 + (n % 10)>>
Pad4(n) == <<48 + (n \div 1000), 48 + ((n \div 100) % 10),
             48 + ((n \div 10) % 10), 48 + (n % 10)>>
Pad6(n) == Pad2(n \div 10000) \o Pad4(n % 10000)

\* int(s[a..b]) for a run of digits
RECURSIVE Num(_, _, _)
Num(s, a, b) == IF a > b THEN 0 ELSE 10 * Num(s, a, b - 1) + (s[b] - 48)

AllDigits(s, a, b) == \A k \in a..b : IsDigit(s[k])

Str_Z_offset == <<43, 48, 48, 58, 48, 48>>          \* "+00:00"

\* s.replace('Z', '+00:00')
RECURSIVE ReplaceZ(_)
ReplaceZ(s) ==
    IF s = <<>> THEN <<>>
    ELSE (IF s[1] = 90 THEN Str_Z_offset ELSE <<s[1]>>) \o ReplaceZ(Tail(s))

(***************************************************************************)
(* json.dumps with the default ensure_ascii=True: every character outside  *)
(* ' '..'~' is escaped, so len() of the result is its size in bytes.       *)
(***************************************************************************)
\* length of one character inside a JSON string (json.encoder ESCAPE_ASCII)
EscLen(c) ==
    IF c \in {34, 92, 8, 9, 10, 12, 13} THEN 2     \* \" \\ \b \t \n \f \r
    ELSE IF c >= 32 /\ c <= 126 THEN 1
    ELSE IF c <= 65535 THEN 6                      \* \uXXXX
    ELSE 12                                        \* surrogate pair

\* the escaped length of characters a..b of s (halving keeps the evaluation shallow)
RECURSIVE EscSum(_, _, _)
EscSum(s, a, b) ==
    IF a > b THEN 0
    ELSE IF a = b THEN EscLen(s[a])
    ELSE LET mid == (a + b) \div 2
         IN  EscSum(s, a, mid) + EscSum(s, mid + 1, b)

\* len(json.dumps(s)) for a str: the quotes and the escaped characters
JsonStrLen(s) == 2 + EscSum(s, 1, Len(s))

\* len(json.dumps(n)) for an int n >= 0
RECURSIVE JsonIntLen(_)
JsonIntLen(n) == IF n < 10 THEN 1 ELSE 1 + JsonIntLen(n \div 10)

\* len(json.dumps(b)) for a bool: true / false
JsonBoolLen(b) == IF b THEN 4 ELSE 5

\* len(json.dumps(evt)) of a formatted event; keys in insertion order:
\* {"title": , "time": , "date": , "location": , "description": ,
\*  "all_day": , "multiday": }
EventJsonLen(e) ==
    10 + JsonStrLen(e.title) + 10 + JsonStrLen(e.time) + 10 + JsonStrLen(e.date)
    + 14 + JsonStrLen(e.location) + 17 + JsonStrLen(e.description)
    + 13 + JsonBoolLen(e.all_day) + 14 + JsonBoolLen(e.multiday) + 1

RECURSIVE EventsJsonSum(_, _)
EventsJsonSum(es, k) ==
    IF k = 0 THEN 0 ELSE EventJsonLen(es[k]) + EventsJsonSum(es, k - 1)

\* len(json.dumps(list_of_events)) : [a, b, c]
EventListJsonLen(es) ==
    2 + EventsJsonSum(es, Len(es)) + (IF Len(es) > 1 THEN 2 * (Len(es) - 1) ELSE 0)

\* len(json.dumps(payload)):
\* {"events": , "count": , "timestamp": , "calendar_id": }
PayloadJsonLen(p) ==
    11 + EventListJsonLen(p.events) + 11 + JsonIntLen(p.count)
    + 15 + JsonStrLen(p.timestamp) + 17 + JsonStrLen(p.calendar_id) + 1

(***************************************************************************)
(* Dates: datetime.fromisoformat, date(), weekday(), timedelta(days=1),    *)
(* strftime.                                                               *)
(***************************************************************************)
IsLeap(y) == (y % 4 = 0 /\ y % 100 # 0) \/ y % 400 = 0

DaysInMonth(y, m) ==
    IF m = 2 THEN (IF IsLeap(y) THEN 29 ELSE 28)
    ELSE IF m \in {4, 6, 9, 11} THEN 30 ELSE 31

RECURSIVE DaysBeforeMonth(_, _)
DaysBeforeMonth(y, m) ==
    IF m <= 1 THEN 0 ELSE DaysBeforeMonth(y, m - 1) + DaysInMonth(y, m - 1)

\* date.toordinal(): 0001-01-01 is day 1
ToOrdinal(y, m, d) ==
    365 * (y - 1) + ((y - 1) \div 4) - ((y - 1) \div 100) + ((y - 1) \div 400)
    + DaysBeforeMonth(y, m) + d

\* date.weekday(): Monday is 0
Weekday(dt) == (ToOrdinal(dt.y, dt.m, dt.d) + 6) % 7

\* the value of a failed parse (fromisoformat raises ValueError)
BadDt == [ok |-> FALSE, y |-> 0, m |-> 0, d |-> 0, hh |-> 0, mi |-> 0]

\* characters 1..10 are YYYY-MM-DD and name a day of the calendar
DatePartOk(s) ==
    /\ Len(s) >= 10
    /\ AllDigits(s, 1, 4) /\ s[5] = 45 /\ AllDigits(s, 6, 7)
    /\ s[8] = 45 /\ AllDigits(s, 9, 10)
    /\ Num(s, 1, 4) >= 1
    /\ Num(s, 6, 7) \in 1..12
    /\ Num(s, 9, 10) >= 1
    /\ Num(s, 9, 10) <= DaysInMonth(Num(s, 1, 4), Num(s, 6, 7))

\* characters 11..19 are a separator and HH:MM:SS
TimePartOk(s) ==
    /\ Len(s) >= 19
    /\ AllDigits(s, 12, 13) /\ s[14] = 58 /\ AllDigits(s, 15, 16)
    /\ s[17] = 58 /\ AllDigits(s, 18, 19)
    /\ Num(s, 12, 13) <= 23 /\ Num(s, 15, 16) <= 59 /\ Num(s, 18, 19) <= 59

\* characters 20..25 are +HH:MM or -HH:MM
OffsetPartOk(s) ==
    /\ Len(s) = 25
    /\ s[20] \in {43, 45}
    /\ AllDigits(s, 21, 22) /\ s[23] = 58 /\ AllDigits(s, 24, 25)
    /\ Num(s, 21, 22) <= 23 /\ Num(s, 24, 25) <= 59

\* datetime.fromisoformat(s): YYYY-MM-DD, YYYY-MM-DDTHH:MM:SS and
\* YYYY-MM-DDTHH:MM:SS+HH:MM; the date and the time are the local ones of
\* the value's own offset.
FromIsoFormat(s) ==
    IF Len(s) = 10 /\ DatePartOk(s)
    THEN [ok |-> TRUE, y |-> Num(s, 1, 4), m |-> Num(s, 6, 7),
          d |-> Num(s, 9, 10), hh |-> 0, mi |-> 0]
    ELSE IF /\ DatePartOk(s) /\ TimePartOk(s)
            /\ (Len(s) = 19 \/ OffsetPartOk(s))
    THEN [ok |-> TRUE, y |-> Num(s, 1, 4), m |-> Num(s, 6, 7),
          d |-> Num(s, 9, 10), hh |-> Num(s, 12, 13), mi |-> Num(s, 15, 16)]
    ELSE BadDt

\* dt - timedelta(days=1)
MinusOneDay(dt) ==
    IF dt.d > 1 THEN [dt EXCEPT !.d = dt.d - 1]
    ELSE IF dt.m > 1
    THEN [dt EXCEPT !.m = dt.m - 1, !.d = DaysInMonth(dt.y, dt.m - 1)]
    ELSE [dt EXCEPT !.y = dt.y - 1, !.m = 12, !.d = 31]

\* dt.date()
DateOf(dt) == <<dt.y, dt.m, dt.d>>

\* day_names_short
day_names_short ==
    << <<77, 97>>, <<84, 105>>, <<75, 101>>, <<84, 111>>,      \* Ma Ti Ke To
       <<80, 101>>, <<76, 97>>, <<83, 117>> >>                  \* Pe La Su

Str_koko_paiva == <<32, 75, 111, 107, 111, 32, 112, 228, 105, 118, 228>>  \* " Koko päivä"
Str_dash == <<32, 45, 32>>                                                \* " - "
Str_no_title == <<78, 111, 32, 84, 105, 116, 108, 101>>                   \* "No Title"

\* f"{day_names_short[dt.weekday()]} {dt.strftime('%d.%m')}"
DayLabel(dt) == day_names_short[Weekday(dt) + 1] \o <<32>> \o Pad2(dt.d) \o <<46>> \o Pad2(dt.m)

\* dt.strftime('%H:%M')
ClockLabel(dt) == Pad2(dt.hh) \o <<58>> \o Pad2(dt.mi)

\* 'T' in start
IsTimed(start) == Contains(start, 84)

\* start_dt of fetch_calendar_events
StartDt(start) ==
    IF IsTimed(start) THEN FromIsoFormat(ReplaceZ(start)) ELSE FromIsoFormat(start)

\* mutant: the exclusive end date is used as it comes
UncorrectedEnd(dt) == dt

\* the end date is moved back one day
CorrectedEnd(dt) == MinusOneDay(dt)

\* end_dt of fetch_calendar_events, after the exclusive-end correction of
\* the all-day branch
EndDt(start, end) ==
    IF IsTimed(start) THEN FromIsoFormat(ReplaceZ(end))
    ELSE IF FromIsoFormat(end).ok THEN CorrectedEnd(FromIsoFormat(end)) ELSE BadDt

\* is_multiday
IsMultiday(start, end) == DateOf(StartDt(start)) # DateOf(EndDt(start, end))

\* 'all_day': 'T' not in start
AllDayOf(start) == ~IsTimed(start)

\* time_str
TimeStr(start, end) ==
    LET s == StartDt(start)
        e == EndDt(start, end)
    IN  IF IsMultiday(start, end) THEN DayLabel(s) \o Str_dash \o DayLabel(e)
        ELSE IF IsTimed(start) THEN DayLabel(s) \o <<32>> \o ClockLabel(s)
        ELSE DayLabel(s) \o Str_koko_paiva

\* fromisoformat raised for this event
Malformed(raw) == ~StartDt(raw.start).ok \/ ~EndDt(raw.start, raw.end).ok

\* mutant: an item that cannot be parsed is formatted all the same
ParsesLeniently(raws) == TRUE

\* datetime.fromisoformat raises on no item of the list
Parses(raws) == \A k \in 1..Len(raws) : ~Malformed(raws[k])

\* formatted_event
FormatEvent(raw) ==
    [title |-> IF raw.hasSummary THEN raw.summary ELSE Str_no_title,
     time |-> TimeStr(raw.start, raw.end),
     date |-> raw.start,
     location |-> raw.location,
     description |-> Take(raw.description, 100),
     all_day |-> AllDayOf(raw.start),
     multiday |-> IsMultiday(raw.start, raw.end)]

(***************************************************************************)
(* The clock.  datetime.utcnow() is read again for every payload the       *)
(* handler builds.  A clock value is a tick of half a second after         *)
(* 2024-06-10T12:00:00; isoformat() leaves the microseconds out when they  *)
(* are zero, so an even tick prints 19 characters and an odd one 26.       *)
(***************************************************************************)
UtcNow(t) == [y |-> 2024, m |-> 6, d |-> 10, hh |-> 12, mi |-> 0,
              ss |-> t \div 2, us |-> (t % 2) * 500000]

\* datetime.isoformat()
IsoFormat(dt) ==
    Pad4(dt.y) \o <<45>> \o Pad2(dt.m) \o <<45>> \o Pad2(dt.d) \o <<84>>
    \o Pad2(dt.hh) \o <<58>> \o Pad2(dt.mi) \o <<58>> \o Pad2(dt.ss)
    \o (IF dt.us = 0 THEN <<>> ELSE <<46>> \o Pad6(dt.us))

\* datetime.utcnow().isoformat() when the clock shows tick t
Timestamp(t) == IsoFormat(UtcNow(t))

(***************************************************************************)
(* The calendar handler.                                                   *)
(***************************************************************************)
MAX_PAYLOAD_SIZE == 1900

\* {'events': es, 'count': n, 'timestamp': ts, 'calendar_id': CALENDAR_ID}
MkPayload(es, n, ts, cal) ==
    [events |-> es, count |-> n, timestamp |-> ts, calendar_id |-> cal]

\* the payload of lines 191-196
FullPayload(es, ts, cal) == MkPayload(es, Len(es), ts, cal)

\* mutant: the trial counts only the events accepted so far
TrialPayloadStaleCount(trimmed, evt, ts, cal) ==
    MkPayload(Append(trimmed, evt), Len(trimmed), ts, cal)

\* the test_payload of lines 211-216
TrialPayload(trimmed, evt, ts, cal) ==
    MkPayload(Append(trimmed, evt), Len(trimmed) + 1, ts, cal)

\* the payload of lines 249-254
TrimmedPayload(trimmed, ts, cal) == MkPayload(trimmed, Len(trimmed), ts, cal)

\* test_payload['events'][-1] = test_evt
ReplaceLast(p, evt) == [p EXCEPT !.events[Len(p.events)] = evt]

\* mutant: the trimming branch is taken from half the device buffer on
TooLargeHalfBuffer(size) == size > 1024

\* payload_size > MAX_PAYLOAD_SIZE
TooLarge(size) == size > MAX_PAYLOAD_SIZE

\* mutant: the trial is measured against the whole device buffer
FitsWholeBuffer(size) == size <= 2048

\* test_size <= MAX_PAYLOAD_SIZE
Fits(size) == size <= MAX_PAYLOAD_SIZE

\* mutant: the description is cut to 25 characters
ShortenedQuarter(d) == Take(d, 25)

\* test_evt['description'][:50]
Shortened(d) == Take(d, 50)

\* ''
Stripped(d) == <<>>

\* mutant: the shorter levels are tried for every event
HasDescriptionAlways(evt) == TRUE

\* elif test_evt['description']: the description is a non-empty string
HasDescription(evt) == evt.description # <<>>

\* mutant: continue instead of break
Continue(i) == [pc |-> "loop", idx |-> i + 1]

\* break: the loop is left, the events after this one are never tried
Break(i) == [pc |-> "final", idx |-> i]

\* the loop goes on with the next event after an append
Advance(i) == [pc |-> "loop", idx |-> i + 1]

NoEvent == [title |-> <<>>, time |-> <<>>, date |-> <<>>, location |-> <<>>,
            description |-> <<>>, all_day |-> FALSE, multiday |-> FALSE]
NoPayload == MkPayload(<<>>, 0, <<>>, <<>>)

\* event_list of fetch_calendar_events
RECURSIVE FormatAll(_)
FormatAll(raws) ==
    IF raws = <<>> THEN <<>>
    ELSE <<FormatEvent(raws[1])>> \o FormatAll(Tail(raws))

(***************************************************************************)
(* Inputs of a calendar run: the environment's CALENDAR_ID and the items   *)
(* the Google Calendar API returns.                                        *)
(***************************************************************************)
LongIdLen == 152   \* characters of the oversized CALENDAR_ID (12 bytes each)

Str_primary == <<112, 114, 105, 109, 97, 114, 121>>                \* "primary"
Str_standup == <<84, 101, 97, 109, 32, 115, 116, 97, 110, 100, 117, 112>>  \* "Team standup"
Str_dentist == <<68, 101, 110, 116, 105, 115, 116>>                \* "Dentist"
Str_lunch == <<76, 117, 110, 99, 104, 58, 32, 34, 75, 97, 104, 118, 105,
               108, 97, 34, 10>>                                   \* 'Lunch: "Kahvila"\n'
Str_room == <<82, 111, 111, 109, 32, 52>>                          \* "Room 4"
Str_helsinki == <<72, 101, 108, 115, 105, 110, 107, 105>>          \* "Helsinki"
Str_plus3 == <<43, 48, 51, 58, 48, 48>>                            \* "+03:00"

DateStr(y, m, d) == Pad4(y) \o <<45>> \o Pad2(m) \o <<45>> \o Pad2(d)
DateTimeStr(y, m, d, hh, mi, suffix) ==
    DateStr(y, m, d) \o <<84>> \o Pad2(hh) \o <<58>> \o Pad2(mi) \o <<58, 48, 48>> \o suffix

RawItem(hasSummary, summary, start, end, location, description) ==
    [hasSummary |-> hasSummary, summary |-> summary, start |-> start,
     end |-> end, location |-> location, description |-> description]

\* a timed meeting with a 120-character description (cut to 100 by the fetch)
RawStandup ==
    RawItem(TRUE, Str_standup, DateTimeStr(2024, 6, 10, 14, 30, Str_plus3),
            DateTimeStr(2024, 6, 10, 15, 0, Str_plus3), <<>>, Rep(100, 120))
\* a two-day all-day event without summary and description, 42 CJK
\* characters in its location
RawAllDay ==
    RawItem(FALSE, <<>>, DateStr(2024, 6, 10), DateStr(2024, 6, 12),
            Str_helsinki \o Rep(26481, 42), <<>>)
\* a timed event over midnight, UTC, with escaped characters everywhere
RawLunch ==
    RawItem(TRUE, Str_lunch, DateTimeStr(2024, 2, 29, 23, 30, <<90>>),
            DateTimeStr(2024, 3, 1, 0, 30, <<90>>), Str_room,
            Rep(228, 20) \o Rep(34, 20) \o Rep(120, 20))
\* a one-day all-day event with a long location (58 emoji)
RawBig ==
    RawItem(TRUE, Str_dentist, DateStr(2024, 12, 31), DateStr(2025, 1, 1),
            Rep(128512, 58) \o Rep(120, 10), Rep(98, 100))
\* a timed event without offset and a medium location (16 emoji)
RawMid ==
    RawItem(TRUE, Str_dentist, DateTimeStr(2024, 6, 11, 9, 0, <<>>),
            DateTimeStr(2024, 6, 11, 10, 0, <<>>),
            Rep(128512, 16) \o Rep(121, 6), Rep(109, 100))

Str_garbage == <<116, 111, 109, 111, 114, 114, 111, 119>>       \* "tomorrow"

\* an all-day item whose start names no day of the calendar
RawBadStart ==
    RawItem(TRUE, Str_dentist, DateStr(2023, 2, 29), DateStr(2023, 3, 1), <<>>, <<>>)

\* a timed item whose end is no date at all
RawBadEnd ==
    RawItem(TRUE, Str_standup, DateTimeStr(2024, 6, 10, 9, 0, <<90>>), Str_garbage,
            Str_room, <<>>)

RawPool == {RawStandup, RawAllDay, RawLunch, RawBig, RawMid, RawBadStart, RawBadEnd}

EventLists ==
    UNION {[1..n -> RawPool] : n \in 0..MaxEvents}
    \cup {Rep(e, n) : e \in RawPool, n \in 1..MaxCopies}

CalendarIds == {Str_primary, Rep(128512, LongIdLen)}

(***************************************************************************)
(* Idle values of the variables a specification does not use.              *)
(***************************************************************************)
CalIdle ==
    /\ pc = "idle" /\ CALENDAR_ID = <<>> /\ rawEvents = <<>> /\ now = 0
    /\ events = <<>> /\ payload = NoPayload /\ payload_size = 0
    /\ trimmed_events = <<>> /\ idx = 0 /\ test_evt = NoEvent
    /\ test_payload = NoPayload /\ test_size = 0 /\ accepted_size = 0
    /\ log = <<>> /\ published = <<>> /\ shadow = <<>> /\ statusCode = 0
NormIdle ==
    /\ nPc = "idle" /\ nStart = <<>> /\ nEnd = <<>> /\ nEndDt = BadDt
    /\ nOut = NoEvent
FcIdle ==
    /\ fcPc = "idle" /\ fcNow = 0 /\ fcResponse = [kind |-> "ok", list |-> <<>>]
    /\ fcList = <<>> /\ fcK = 0 /\ fcChosen = <<>> /\ forecast_data = <<>>
    /\ fcOut = <<>>
WxIdle ==
    /\ wxPc = "idle" /\ wxResponse = [kind |-> "urlerror"] /\ weather = <<>>
    /\ forecast = <<>> /\ wxNow = 0 /\ wxPayload = <<>> /\ wxPublished = <<>>
    /\ wxShadow = <<>> /\ wxStatusCode = 0 /\ wxBody = <<>>

(***************************************************************************)
(* handler(event, context) of the calendar Lambda, one action per step.    *)
(***************************************************************************)
Init ==
    /\ pc = "start"
    /\ CALENDAR_ID \in CalendarIds
    /\ rawEvents \in EventLists
    /\ now = 0
    /\ events = <<>> /\ payload = NoPayload /\ payload_size = 0
    /\ trimmed_events = <<>> /\ idx = 0 /\ test_evt = NoEvent
    /\ test_payload = NoPayload /\ test_size = 0 /\ accepted_size = 0
    /\ log = <<>> /\ published = <<>> /\ shadow = <<>> /\ statusCode = 0
    /\ NormIdle /\ FcIdle /\ WxIdle

\* the handler returns {'statusCode': 500, ...} from its except branch
Return500 == statusCode' = 500 /\ pc' = "done"

\* events = fetch_calendar_events(): the items are formatted
Fetch ==
    /\ pc = "start"
    /\ Parses(rawEvents)
    /\ events' = FormatAll(rawEvents)
    /\ pc' = "build"
    /\ UNCHANGED <<normVars, fcVars, wxVars>>
    /\ UNCHANGED <<CALENDAR_ID, rawEvents, now, payload, payload_size,
                   trimmed_events, idx, test_evt, test_payload, test_size,
                   accepted_size, log, published, shadow, statusCode>>

\* fetch_calendar_events raises (the API call, or fromisoformat on an item)
FetchRaises ==
    /\ pc = "start"
    /\ Return500
    /\ UNCHANGED <<normVars, fcVars, wxVars>>
    /\ UNCHANGED <<CALENDAR_ID, rawEvents, now, events, payload, payload_size,
                   trimmed_events, idx, test_evt, test_payload, test_size,
                   accepted_size, log, published, shadow>>

\* lines 191-202: the full payload is built and measured
Build ==
    /\ pc = "build"
    /\ \E t \in now..MaxTick :
        /\ now' = t
        /\ payload' = FullPayload(events, Timestamp(t), CALENDAR_ID)
    /\ payload_size' = PayloadJsonLen(payload')
    /\ IF TooLarge(payload_size')
       THEN pc' = "loop" /\ idx' = 1
       ELSE pc' = "publish" /\ idx' = idx
    /\ trimmed_events' = <<>>
    /\ UNCHANGED <<normVars, fcVars, wxVars>>
    /\ UNCHANGED <<CALENDAR_ID, rawEvents, events, test_evt, test_payload,
                   test_size, accepted_size, log, published, shadow, statusCode>>

\* trimmed_events.append(test_evt) and the line the loop prints for it
Accept(evt, size, level) ==
    /\ trimmed_events' = Append(trimmed_events, evt)
    /\ accepted_size' = size
    /\ log' = Append(log, <<idx, level>>)
    /\ pc' = Advance(idx).pc /\ idx' = Advance(idx).idx

\* the event is rejected at its last level: the loop prints and breaks
Reject ==
    /\ log' = Append(log, <<idx, "rejected">>)
    /\ pc' = Break(idx).pc /\ idx' = Break(idx).idx
    /\ UNCHANGED <<trimmed_events, accepted_size>>

\* lines 208-223: the next event is tried with its full description
TryFull ==
    /\ pc = "loop" /\ idx <= Len(events)
    /\ \E t \in now..MaxTick :
        /\ now' = t
        /\ test_payload' = TrialPayload(trimmed_events, events[idx],
                                        Timestamp(t), CALENDAR_ID)
    /\ test_evt' = events[idx]
    /\ test_size' = PayloadJsonLen(test_payload')
    /\ IF Fits(test_size') THEN Accept(test_evt', test_size', "full")
       ELSE IF HasDescription(test_evt')
       THEN /\ pc' = "short"
            /\ UNCHANGED <<trimmed_events, accepted_size, log, idx>>
       ELSE Reject
    /\ UNCHANGED <<normVars, fcVars, wxVars>>
    /\ UNCHANGED <<CALENDAR_ID, rawEvents, events, payload, payload_size,
                   published, shadow, statusCode>>

\* lines 224-231: the description is cut to its first 50 characters
TryShortened ==
    /\ pc = "short"
    /\ test_evt' = [test_evt EXCEPT !.description = Shortened(test_evt.description)]
    /\ test_payload' = ReplaceLast(test_payload, test_evt')
    /\ test_size' = PayloadJsonLen(test_payload')
    /\ IF Fits(test_size') THEN Accept(test_evt', test_size', "shortened")
       ELSE /\ pc' = "strip"
            /\ UNCHANGED <<trimmed_events, accepted_size, log, idx>>
    /\ UNCHANGED <<normVars, fcVars, wxVars>>
    /\ UNCHANGED <<CALENDAR_ID, rawEvents, now, events, payload, payload_size,
                   published, shadow, statusCode>>

\* lines 232-243: the description is emptied
TryStripped ==
    /\ pc = "strip"
    /\ test_evt' = [test_evt EXCEPT !.description = Stripped(test_evt.description)]
    /\ test_payload' = ReplaceLast(test_payload, test_evt')
    /\ test_size' = PayloadJsonLen(test_payload')
    /\ IF Fits(test_size') THEN Accept(test_evt', test_size', "stripped")
       ELSE Reject
    /\ UNCHANGED <<normVars, fcVars, wxVars>>
    /\ UNCHANGED <<CALENDAR_ID, rawEvents, now, events, payload, payload_size,
                   published, shadow, statusCode>>

\* lines 249-255: the loop has ended (exhausted or left by break) and the
\* payload is built again from trimmed_events
BuildTrimmed ==
    /\ \/ pc = "final"
       \/ pc = "loop" /\ idx > Len(events)
    /\ \E t \in now..MaxTick :
        /\ now' = t
        /\ payload' = TrimmedPayload(trimmed_events, Timestamp(t), CALENDAR_ID)
    /\ pc' = "publish"
    /\ UNCHANGED <<normVars, fcVars, wxVars>>
    /\ UNCHANGED <<CALENDAR_ID, rawEvents, events, payload_size, trimmed_events,
                   idx, test_evt, test_payload, test_size, accepted_size, log,
                   published, shadow, statusCode>>

\* publish_to_iot(topic, payload) returns
Publish ==
    /\ pc = "publish"
    /\ published' = Append(published, payload)
    /\ pc' = "shadow"
    /\ UNCHANGED <<normVars, fcVars, wxVars>>
    /\ UNCHANGED <<CALENDAR_ID, rawEvents, now, events, payload, payload_size,
                   trimmed_events, idx, test_evt, test_payload, test_size,
                   accepted_size, log, shadow, statusCode>>

\* publish_to_iot raises
PublishRaises ==
    /\ pc = "publish"
    /\ Return500
    /\ UNCHANGED <<normVars, fcVars, wxVars>>
    /\ UNCHANGED <<CALENDAR_ID, rawEvents, now, events, payload, payload_size,
                   trimmed_events, idx, test_evt, test_payload, test_size,
                   accepted_size, log, published, shadow>>

\* update_shadow(payload) returns and the handler returns 200
UpdateShadow ==
    /\ pc = "shadow"
    /\ shadow' = Append(shadow, payload)
    /\ statusCode' = 200
    /\ pc' = "done"
    /\ UNCHANGED <<normVars, fcVars, wxVars>>
    /\ UNCHANGED <<CALENDAR_ID, rawEvents, now, events, payload, payload_size,
                   trimmed_events, idx, test_evt, test_payload, test_size,
                   accepted_size, log, published>>

\* update_shadow raises
ShadowRaises ==
    /\ pc = "shadow"
    /\ Return500
    /\ UNCHANGED <<normVars, fcVars, wxVars>>
    /\ UNCHANGED <<CALENDAR_ID, rawEvents, now, events, payload, payload_size,
                   trimmed_events, idx, test_evt, test_payload, test_size,
                   accepted_size, log, published, shadow>>

Next ==
    \/ Fetch \/ FetchRaises \/ Build \/ TryFull \/ TryShortened \/ TryStripped
    \/ BuildTrimmed \/ Publish \/ PublishRaises \/ UpdateShadow \/ ShadowRaises

Spec == Init /\ [][Next]_vars

(***************************************************************************)
(* Properties of the calendar handler.                                     *)
(***************************************************************************)
\* size of the payload without events under the clock value t
SkeletonLen(t) == PayloadJsonLen(MkPayload(<<>>, 0, Timestamp(t), CALENDAR_ID))
SkeletonFits == \A t \in 0..MaxTick : SkeletonLen(t) <= MAX_PAYLOAD_SIZE
SkeletonTooBig == \A t \in 0..MaxTick : SkeletonLen(t) > MAX_PAYLOAD_SIZE

WithinBudget(p) == PayloadJsonLen(p) <= MAX_PAYLOAD_SIZE

\* the trimming branch ran in this run
Trimmed == payload_size > MAX_PAYLOAD_SIZE
Emitted == pc \in {"publish", "shadow", "done"} /\ payload # NoPayload

\* a is e with another description at most
SameButDescription(a, e) == a = [e EXCEPT !.description = a.description]
SameIdentity(a, e) == a.title = e.title /\ a.time = e.time /\ a.date = e.date

\* d is the first 50 characters of o
IsFirst50(d, o) ==
    /\ Len(d) = (IF Len(o) < 50 THEN Len(o) ELSE 50)
    /\ \A k \in 1..Len(d) : d[k] = o[k]

\* C1: whenever the payload without events fits, every payload handed to
\* publish_to_iot and update_shadow serializes to at most MAX_PAYLOAD_SIZE
\* characters, trimmed or not.
C1_BudgetInvariant ==
    SkeletonFits =>
        /\ \A k \in 1..Len(published) : WithinBudget(published[k])
        /\ \A k \in 1..Len(shadow) : WithinBudget(shadow[k])

\* C2: when the payload without events already exceeds MAX_PAYLOAD_SIZE the
\* run ends in a BudgetExceeded signal: nothing is published, nothing goes to
\* the shadow, the handler does not report success, and a finished run has
\* considered no event.
C2_BudgetExceeded ==
    SkeletonTooBig =>
        /\ published = <<>> /\ shadow = <<>>
        /\ statusCode # 200
        /\ (pc = "done" => log = <<>>)

\* C3: the accepted events are the first k input events in input order
\* (compared by title, time and date); a rejection is the last thing the
\* loop does, so nothing after a rejected event is accepted.
C3_OrderPreservation ==
    /\ Len(trimmed_events) <= Len(events)
    /\ \A k \in 1..Len(trimmed_events) : SameIdentity(trimmed_events[k], events[k])
    /\ Emitted /\ Trimmed =>
         /\ Len(payload.events) <= Len(events)
         /\ \A k \in 1..Len(payload.events) : SameIdentity(payload.events[k], events[k])
    /\ \A j \in 1..Len(log) :
         log[j][2] = "rejected" =>
            /\ j = Len(log)
            /\ Len(trimmed_events) = log[j][1] - 1
            /\ pc \in {"final", "publish", "shadow", "done"}

\* C3 witness: a finished run in which an event was rejected although an
\* event behind it would have fitted behind the accepted ones.
C3_Witness ==
    /\ pc = "done" /\ statusCode = 200 /\ Trimmed
    /\ Len(trimmed_events) >= 1
    /\ log[Len(log)][2] = "rejected"
    /\ \E j \in (log[Len(log)][1] + 1)..Len(events) :
         WithinBudget(TrialPayload(trimmed_events, events[j],
                                   payload.timestamp, CALENDAR_ID))

\* the scenario of C4: 10 equal events with 100-character descriptions of
\* which, under every clock value, 6 fit in full and 7 do not, and 8 fit
\* with the descriptions cut to 50 characters
CutTo50(e) == [e EXCEPT !.description = SubSeq(e.description, 1, 50)]
CopiesFit(e, n) ==
    \A t \in 0..MaxTick : WithinBudget(FullPayload(Rep(e, n), Timestamp(t), CALENDAR_ID))
CopiesExceed(e, n) ==
    \A t \in 0..MaxTick : ~WithinBudget(FullPayload(Rep(e, n), Timestamp(t), CALENDAR_ID))
C4_Scenario ==
    /\ Len(events) = 10
    /\ \A k \in 1..10 : events[k] = events[1]
    /\ Len(events[1].description) = 100
    /\ CopiesFit(events[1], 6) /\ CopiesExceed(events[1], 7)
    /\ CopiesFit(CutTo50(events[1]), 8)

\* C4 as stated: in the scenario exactly 8 events are emitted, all of
\* them with shortened descriptions.
C4_EightShortened ==
    C4_Scenario /\ published # <<>> =>
        /\ Len(published[1].events) = 8
        /\ \A k \in 1..Len(published[1].events) :
             published[1].events[k] = CutTo50(events[k])

\* C4 as amended: in the scenario the first 6 events are emitted with their
\* full descriptions, at most 2 more follow and those are degraded
\* (shortened or stripped); neither 8 shortened events nor all 10.
C4_SixFullThenDegraded ==
    C4_Scenario /\ published # <<>> =>
        LET out == published[1].events
        IN  /\ Len(out) \in 6..8
            /\ \A k \in 1..6 : out[k] = events[k]
            /\ \A k \in 7..Len(out) :
                 /\ SameButDescription(out[k], events[k])
                 /\ Len(out[k].description) <= 50

\* C4 witness: the scenario was packed and published.
C4_Witness ==
    /\ C4_Scenario /\ pc = "done" /\ statusCode = 200
    /\ Len(published[1].events) = 7
    /\ log[7] = <<7, "shortened">>

\* C5: when the payload of all events with full descriptions measures at
\* most MAX_PAYLOAD_SIZE the trimming does not run and the emitted payload
\* holds the same events in the same order with count = len(events).
C5_NoPressure ==
    Emitted /\ payload_size <= MAX_PAYLOAD_SIZE =>
        /\ log = <<>> /\ trimmed_events = <<>>
        /\ payload.events = events
        /\ payload.count = Len(events)
        /\ payload_size = PayloadJsonLen(payload)
        /\ \A k \in 1..Len(published) : published[k] = payload
        /\ \A k \in 1..Len(shadow) : shadow[k] = payload

\* C5 witness: a published run without trimming whose events have
\* descriptions longer than 50 characters.
C5_Witness ==
    /\ pc = "done" /\ statusCode = 200 /\ ~Trimmed
    /\ Len(events) >= 2
    /\ \A k \in 1..Len(events) : Len(events[k].description) > 50
    /\ published = <<payload>>

\* C6: an accepted event differs from its input event in the description
\* at most, and the description is the original one (accepted at full), its
\* first 50 characters (shortened) or empty (stripped).
C6_MonotonicDegradation ==
    /\ \A k \in 1..Len(trimmed_events) :
         /\ SameButDescription(trimmed_events[k], events[k])
         /\ log[k][1] = k
         /\ log[k][2] \in {"full", "shortened", "stripped"}
         /\ log[k][2] = "full" =>
              trimmed_events[k].description = events[k].description
         /\ log[k][2] = "shortened" =>
              IsFirst50(trimmed_events[k].description, events[k].description)
         /\ log[k][2] = "stripped" => trimmed_events[k].description = <<>>
    /\ Emitted /\ Trimmed => payload.events = trimmed_events

\* C6 witness: a published payload with an event accepted at shortened,
\* whose description lost characters.
C6_Witness ==
    /\ pc = "done" /\ statusCode = 200 /\ Trimmed
    /\ \E k \in 1..Len(trimmed_events) :
         /\ log[k][2] = "shortened"
         /\ Len(published[1].events[k].description) = 50
         /\ Len(events[k].description) = 100

\* C7: count equals the number of entries of events in the full payload,
\* in every trial payload and in the trimmed payload, and the trimmed
\* payload counts the accepted events.
CountMatches(p) == p.count = Len(p.events)
C7_CountIsLen ==
    /\ CountMatches(payload) /\ CountMatches(test_payload)
    /\ \A k \in 1..Len(published) : CountMatches(published[k])
    /\ \A k \in 1..Len(shadow) : CountMatches(shadow[k])
    /\ Emitted /\ Trimmed => payload.count = Len(trimmed_events)
    /\ Emitted /\ ~Trimmed => payload.count = Len(events)

\* C7 witness: a trial payload whose last event was replaced by its
\* stripped variant, behind two accepted events.
C7_Witness ==
    /\ pc = "loop" /\ Len(trimmed_events) = 3
    /\ log[3] = <<3, "stripped">>
    /\ test_payload.count = 3

(***************************************************************************)
(* The temporal normalization of fetch_calendar_events (lines 85-127) on   *)
(* its own: one item, drawn from a set of start and end values around      *)
(* month, leap-day and year boundaries.                                    *)
(***************************************************************************)
NormDays ==
    {<<2023, 2, 28>>, <<2023, 3, 1>>, <<2023, 12, 31>>, <<2024, 1, 1>>,
     <<2024, 2, 28>>, <<2024, 2, 29>>, <<2024, 3, 1>>, <<2024, 6, 10>>,
     <<2024, 6, 11>>, <<2024, 6, 12>>, <<2024, 12, 31>>, <<2025, 1, 1>>}
NormTimes == {<<0, 0>>, <<9, 5>>, <<23, 30>>}
NormSuffixes == {<<>>, <<90>>, Str_plus3}

DayOrdinal(day) == ToOrdinal(day[1], day[2], day[3])

\* all-day items: the end is exclusive, so it lies behind the start
AllDayInputs ==
    {<<DateStr(x[1][1], x[1][2], x[1][3]), DateStr(x[2][1], x[2][2], x[2][3])>> :
        x \in {y \in NormDays \X NormDays : DayOrdinal(y[1]) < DayOrdinal(y[2])}}

\* timed items: start and end carry the same offset notation
TimedInputs ==
    {<<DateTimeStr(x[1][1], x[1][2], x[1][3], x[3][1], x[3][2], x[5]),
       DateTimeStr(x[2][1], x[2][2], x[2][3], x[4][1], x[4][2], x[5])>> :
        x \in {y \in NormDays \X NormDays \X NormTimes \X NormTimes \X NormSuffixes :
                 DayOrdinal(y[1]) <= DayOrdinal(y[2])}}

\* items whose start or end is no ISO date
MalformedInputs ==
    {<<DateStr(2023, 2, 29), DateStr(2023, 3, 1)>>,
     <<DateStr(2024, 6, 10), Str_garbage>>,
     <<DateTimeStr(2024, 6, 10, 25, 0, <<90>>), DateTimeStr(2024, 6, 10, 26, 0, <<90>>)>>}

NormInputs == AllDayInputs \cup TimedInputs \cup MalformedInputs

NormItem == RawItem(FALSE, <<>>, nStart, nEnd, <<>>, <<>>)

InitNorm ==
    /\ CalIdle /\ FcIdle /\ WxIdle
    /\ nPc = "start"
    /\ \E io \in NormInputs : nStart = io[1] /\ nEnd = io[2]
    /\ nEndDt = BadDt
    /\ nOut = NoEvent

\* lines 86-127 for one item
Normalize ==
    /\ nPc = "start"
    /\ ~Malformed(NormItem)
    /\ nEndDt' = EndDt(nStart, nEnd)
    /\ nOut' = FormatEvent(NormItem)
    /\ nPc' = "done"
    /\ UNCHANGED <<nStart, nEnd, calVars, fcVars, wxVars>>

\* fromisoformat raises ValueError
NormalizeRaises ==
    /\ nPc = "start"
    /\ Malformed(NormItem)
    /\ nPc' = "raised"
    /\ UNCHANGED <<nStart, nEnd, nEndDt, nOut, calVars, fcVars, wxVars>>

NextNorm == Normalize \/ NormalizeRaises

SpecNorm == InitNorm /\ [][NextNorm]_vars

\* the calendar date written in the first ten characters of a value
WrittenDay(s) == <<Num(s, 1, 4), Num(s, 6, 7), Num(s, 9, 10)>>
HasNoT(s) == \A k \in 1..Len(s) : s[k] # 84
Str_ma_ti == <<77, 97, 32, 49, 48, 46, 48, 54, 32, 45, 32, 84, 105, 32,
               49, 49, 46, 48, 54>>                      \* "Ma 10.06 - Ti 11.06"

\* C8: all_day holds exactly when the start value has no 'T'; for an
\* all-day item end_dt is the day before the given end; multiday holds
\* exactly when the start date differs from the end date (the corrected one
\* for all-day items).  2024-06-10 .. 2024-06-12 gives 2024-06-11 and
\* multiday, an all-day item ending the day after its start is not multiday.
C8_AllDayAndMultiday ==
    nPc = "done" =>
        LET startDay == DayOrdinal(WrittenDay(nStart))
            endDay == DayOrdinal(WrittenDay(nEnd))
            shownEnd == IF HasNoT(nStart) THEN endDay - 1 ELSE endDay
        IN  /\ nOut.all_day = HasNoT(nStart)
            /\ DayOrdinal(DateOf(nEndDt)) = shownEnd
            /\ nOut.multiday = (startDay # shownEnd)
            /\ (nStart = DateStr(2024, 6, 10) /\ nEnd = DateStr(2024, 6, 12)) =>
                 /\ DateOf(nEndDt) = <<2024, 6, 11>>
                 /\ nOut.multiday
                 /\ nOut.time = Str_ma_ti
            /\ (HasNoT(nStart) /\ endDay = startDay + 1) => ~nOut.multiday

\* C8 witness: the all-day item 2024-06-10 .. 2024-06-12 was normalized.
C8_Witness ==
    /\ nPc = "done"
    /\ nStart = DateStr(2024, 6, 10) /\ nEnd = DateStr(2024, 6, 12)
    /\ nOut.all_day /\ nOut.multiday
    /\ DateOf(nEndDt) = <<2024, 6, 11>>

(***************************************************************************)
(* fetch_forecast of the weather Lambda.  Times are seconds since the      *)
(* epoch, temperatures tenths of a degree.                                 *)
(***************************************************************************)
MaxSamples == 3     \* longest data['list'] the forecast API returns

Str_icon_sun == <<48, 49, 100>>                                  \* "01d"
Str_icon_snow == <<49, 51, 110>>                                 \* "13n"
Str_clear == <<99, 108, 101, 97, 114>>                           \* "clear"
Str_snow == <<115, 110, 111, 119>>                               \* "snow"

\* target_hours_offset
target_hours_offset == <<0, 6, 12, 18>>

\* timedelta(hours=offset), in seconds
Hours(h) == h * 3600

Abs(x) == IF x < 0 THEN 0 - x ELSE x

\* int(x) of a float given in tenths: rounds towards zero
IntOfTenths(x) == IF x < 0 THEN 0 - ((0 - x) \div 10) ELSE x \div 10

\* an entry of data['list']; complete is FALSE when 'main' or 'weather' is
\* missing from it
Sample(dt, temp, icon, description, complete) ==
    [dt |-> dt, temp |-> temp, icon |-> icon, description |-> description,
     complete |-> complete]

SampleTimes == {Hours(5), Hours(7), Hours(12), Hours(30)}
SamplePool ==
    {Sample(dt, 217, Str_icon_sun, Str_clear, TRUE) : dt \in SampleTimes}
    \cup {Sample(dt, 0 - 15, Str_icon_snow, Str_snow, TRUE) : dt \in SampleTimes}
    \cup {Sample(dt, 217, <<>>, <<>>, FALSE) : dt \in SampleTimes}
SampleLists == UNION {[1..n -> SamplePool] : n \in 0..MaxSamples}

\* what urlopen and json.loads deliver: the parsed data, a URLError, or a
\* body that is no forecast (json.loads raises, or there is no 'list')
Responses ==
    {[kind |-> "ok", list |-> l] : l \in SampleLists}
    \cup {[kind |-> "urlerror", list |-> <<>>], [kind |-> "badjson", list |-> <<>>]}

\* mutant: a later item at the same distance replaces the closest one
CloserOrEqual(diff, best, minDiff) == best = 0 \/ diff <= minDiff

\* time_diff < min_diff; min_diff is float('inf') until an item was taken
\* (best = 0: closest_item is None)
Closer(diff, best, minDiff) == best = 0 \/ diff < minDiff

\* lines 76-85: the scan of data['list'] from item k on; the result is the
\* position of closest_item, 0 for None
RECURSIVE ScanClosest(_, _, _, _, _)
ScanClosest(list, target, k, best, minDiff) ==
    IF k > Len(list) THEN best
    ELSE LET diff == Abs(list[k].dt - target)
         IN  IF Closer(diff, best, minDiff)
             THEN ScanClosest(list, target, k + 1, k, diff)
             ELSE ScanClosest(list, target, k + 1, best, minDiff)

ClosestIndex(list, target) == ScanClosest(list, target, 1, 0, 0)

\* lines 88-95: the slot made of closest_item
Slot(item) ==
    [time |-> Pad2((item.dt \div 3600) % 24) \o <<58>> \o Pad2((item.dt \div 60) % 60),
     hour |-> (item.dt \div 3600) % 24,
     temp |-> IntOfTenths(item.temp),
     icon |-> item.icon,
     description |-> item.description]

\* mutant: the except branch returns what was collected so far
OnErrorPartial(partial) == partial

\* lines 103-108: return []
OnError(partial) == <<>>

\* mutant: the except branches raise again
AfterErrorRaise == "raised"

\* lines 103-108: both except branches return to the caller
AfterError == "returned"

InitFc ==
    /\ CalIdle /\ NormIdle /\ WxIdle
    /\ fcPc = "start"
    /\ fcNow \in {0, Hours(3)}
    /\ fcResponse \in Responses
    /\ fcList = <<>> /\ fcK = 0 /\ fcChosen = <<>> /\ forecast_data = <<>>
    /\ fcOut = <<>>

\* lines 60-70: the response is read and parsed
FcFetch ==
    /\ fcPc = "start" /\ fcResponse.kind = "ok"
    /\ fcList' = fcResponse.list
    /\ fcK' = 1
    /\ fcPc' = "select"
    /\ UNCHANGED <<fcNow, fcResponse, fcChosen, forecast_data, fcOut, calVars, normVars, wxVars>>

\* urlopen or json.loads raises, or data has no 'list': the except branches
FcFetchFails ==
    /\ fcPc = "start" /\ fcResponse.kind # "ok"
    /\ fcOut' = OnError(forecast_data)
    /\ fcPc' = AfterError
    /\ UNCHANGED <<fcNow, fcResponse, fcList, fcK, fcChosen, forecast_data,
                   calVars, normVars, wxVars>>

\* lines 72-95: one pass of the loop over target_hours_offset
FcSelect ==
    /\ fcPc = "select" /\ fcK <= Len(target_hours_offset)
    /\ LET target == fcNow + Hours(target_hours_offset[fcK])
           closest == ClosestIndex(fcList, target)
       IN  /\ fcChosen' = Append(fcChosen, closest)
           /\ IF closest = 0
              THEN /\ fcK' = fcK + 1
                   /\ UNCHANGED <<forecast_data, fcOut, fcPc>>
              ELSE IF fcList[closest].complete
              THEN /\ forecast_data' = Append(forecast_data, Slot(fcList[closest]))
                   /\ fcK' = fcK + 1
                   /\ UNCHANGED <<fcOut, fcPc>>
              ELSE /\ fcOut' = OnError(forecast_data)
                   /\ fcPc' = AfterError
                   /\ UNCHANGED <<forecast_data, fcK>>
    /\ UNCHANGED <<fcNow, fcResponse, fcList, calVars, normVars, wxVars>>

\* line 101: return forecast_data
FcReturn ==
    /\ fcPc = "select" /\ fcK > Len(target_hours_offset)
    /\ fcOut' = forecast_data
    /\ fcPc' = "returned"
    /\ UNCHANGED <<fcNow, fcResponse, fcList, fcK, fcChosen, forecast_data,
                   calVars, normVars, wxVars>>

NextFc == FcFetch \/ FcFetchFails \/ FcSelect \/ FcReturn

SpecFc == InitFc /\ [][NextFc]_vars

\* distance in seconds between sample j and the target of offset k
Distance(j, k) == Abs(fcList[j].dt - (fcNow + 3600 * target_hours_offset[k]))

\* C9: for every offset the chosen sample has the least distance in seconds
\* to now + offset among all samples, and every sample before it in the
\* list is strictly farther away; the slot is made of that sample.
C9_NearestFirst ==
    /\ \A k \in 1..Len(fcChosen) :
         IF fcList = <<>> THEN fcChosen[k] = 0
         ELSE /\ fcChosen[k] \in 1..Len(fcList)
              /\ \A j \in 1..Len(fcList) : Distance(fcChosen[k], k) <= Distance(j, k)
              /\ \A j \in 1..(fcChosen[k] - 1) : Distance(j, k) > Distance(fcChosen[k], k)
    /\ \A k \in 1..Len(forecast_data) :
         /\ forecast_data[k].hour = (fcList[fcChosen[k]].dt \div 3600) % 24
         /\ forecast_data[k].icon = fcList[fcChosen[k]].icon

\* C9 witness: now + 6h lies one hour from both samples, the later one
\* comes first in the list and is the one chosen.
C9_Witness ==
    /\ fcPc = "returned" /\ fcNow = 0 /\ Len(fcList) = 2
    /\ fcList[1].dt = 7 * 3600 /\ fcList[2].dt = 5 * 3600
    /\ fcList[1].icon # fcList[2].icon
    /\ Len(fcOut) = 4
    /\ fcChosen[2] = 1 /\ fcOut[2].icon = fcList[1].icon

\* every sample a slot was asked of has its fields
ChosenComplete == \A k \in 1..Len(fcChosen) : fcChosen[k] = 0 \/ fcList[fcChosen[k]].complete

\* C10 as stated: the result has one slot per offset unless the sample
\* list is empty, and then it is empty.
C10_LengthUnlessEmpty ==
    fcPc = "returned" => Len(fcOut) = (IF fcList = <<>> THEN 0 ELSE Len(target_hours_offset))

\* C10 as amended: the result has one slot per offset, in offset order,
\* unless the sample list is empty or the fetch or the parsing failed; then
\* it is empty.  fetch_forecast returns in every case, with 0 or 4 slots.
C10_LengthOrEmpty ==
    /\ fcPc \in {"start", "select", "returned"}
    /\ fcPc = "returned" =>
         /\ Len(fcOut) = (IF fcResponse.kind = "ok" /\ fcList # <<>> /\ ChosenComplete
                          THEN Len(target_hours_offset) ELSE 0)
         /\ Len(target_hours_offset) = 4
         /\ \A k \in 1..Len(fcOut) :
              /\ fcOut[k].hour = (fcList[fcChosen[k]].dt \div 3600) % 24
              /\ \A j \in 1..Len(fcList) : Distance(fcChosen[k], k) <= Distance(j, k)

\* C10 witness: a single sample serves all four offsets.
C10_Witness ==
    /\ fcPc = "returned" /\ Len(fcList) = 1 /\ Len(fcOut) = 4
    /\ \A k \in 1..4 : fcOut[k] = fcOut[1]

(***************************************************************************)
(* Failures of the calendar run.                                           *)
(***************************************************************************)
\* some item of the fetched list has a start or an end that does not parse
SomeMalformed == \E k \in 1..Len(rawEvents) : Malformed(rawEvents[k])

\* C11: when the start or the end of any fetched item cannot be parsed, the
\* run goes from the fetch straight to the return of status 500: no events
\* are formatted, nothing is published and the shadow is not updated.
C11_MalformedPropagates ==
    SomeMalformed =>
        /\ pc \in {"start", "done"}
        /\ events = <<>> /\ payload = NoPayload
        /\ published = <<>> /\ shadow = <<>>
        /\ pc = "done" => statusCode = 500

\* C11 witness: two items that parse are followed by one that does not, and
\* the run has ended with status 500 and nothing sent.
C11_Witness ==
    /\ pc = "done" /\ statusCode = 500
    /\ Len(rawEvents) = 3
    /\ ~Malformed(rawEvents[1]) /\ ~Malformed(rawEvents[2])
    /\ Malformed(rawEvents[3])
    /\ published = <<>> /\ shadow = <<>>

(***************************************************************************)
(* The order of the degradation levels.                                    *)
(***************************************************************************)
\* the entry the loop has just written to its log, <<0, "none">> if none
Decided == IF log' = log THEN <<0, "none">> ELSE log'[Len(log')]

\* one step of the trimming loop tries the level its position names, on
\* the event at idx behind the accepted events, and measures that trial
TrialOf(level, d) ==
    /\ idx \in 1..Len(events)
    /\ test_evt' = [events[idx] EXCEPT !.description = d]
    /\ test_payload'.events = Append(trimmed_events, test_evt')
    /\ test_size' = PayloadJsonLen(test_payload')
    /\ Decided \in {<<0, "none">>, <<idx, level>>, <<idx, "rejected">>}
    /\ Decided[2] = level <=>
         test_size' <= MAX_PAYLOAD_SIZE /\ trimmed_events' = Append(trimmed_events, test_evt')
    /\ Decided[2] # level => test_size' > MAX_PAYLOAD_SIZE /\ trimmed_events' = trimmed_events
    /\ Decided[2] = "rejected" => pc' = "final"

\* C12: the full level is tried first; the shortened level (first 50
\* characters) is tried only behind a full trial of the same event that did
\* not fit and only for a non-empty description, the stripped level only
\* behind a shortened trial that did not fit; the event is accepted at the
\* level tried as soon as its trial fits, and an event without description
\* that does not fit at full is rejected, which ends the loop.
C12_FirstFit ==
    [][/\ pc = "loop" /\ pc' # "publish" =>
            /\ TrialOf("full", events[idx].description)
            /\ pc' = "short" <=>
                 test_size' > MAX_PAYLOAD_SIZE /\ events[idx].description # <<>>
            /\ Decided[2] = "rejected" <=>
                 test_size' > MAX_PAYLOAD_SIZE /\ events[idx].description = <<>>
       /\ pc' = "short" => pc = "loop" /\ idx' = idx /\ Decided[2] = "none"
       /\ pc = "short" =>
            /\ TrialOf("shortened", Take(events[idx].description, 50))
            /\ events[idx].description # <<>>
            /\ pc' = "strip" <=> test_size' > MAX_PAYLOAD_SIZE
            /\ Decided[2] # "rejected"
       /\ pc' = "strip" => pc = "short" /\ idx' = idx /\ Decided[2] = "none"
       /\ pc = "strip" =>
            /\ TrialOf("stripped", <<>>)
            /\ events[idx].description # <<>>
            /\ Decided[2] # "none"
       /\ Decided[2] \in {"full", "shortened", "stripped"} => pc' = "loop" /\ idx' = idx + 1
      ]_vars

\* C12 witness: a finished run in which one event went through all three
\* levels and was accepted with an empty description.
C12_Witness ==
    /\ pc = "done" /\ statusCode = 200
    /\ \E k \in 1..Len(log) :
         /\ log[k][2] = "stripped" /\ events[k].description # <<>>
         /\ published[1].events[k].description = <<>>

(***************************************************************************)
(* The metadata of the payloads of one run.                                *)
(***************************************************************************)
\* timestamp and calendar_id of a payload
Metadata(p) == <<p.timestamp, p.calendar_id>>

\* C13: every trial payload and the payload finally emitted carry the
\* timestamp and the calendar_id of the payload the run built first, and
\* the size measured by the trial that accepted the last event is the
\* serialized size of the emitted payload.
C13_UnchangedMetadata ==
    /\ test_payload # NoPayload /\ payload # NoPayload =>
         Metadata(test_payload) = Metadata(payload)
    /\ Emitted /\ Trimmed /\ trimmed_events # <<>> =>
         PayloadJsonLen(payload) = accepted_size

(***************************************************************************)
(* handler(event, context) of the weather Lambda.  The steps of            *)
(* fetch_forecast are the actions FcFetch .. FcReturn above.               *)
(***************************************************************************)
\* WEATHER_CITY = os.environ['WEATHER_CITY']
WEATHER_CITY == Str_helsinki

Str_openweathermap == <<111, 112, 101, 110, 119, 101, 97, 116, 104, 101, 114, 109, 97, 112>>   \* "openweathermap"
Str_Clear == <<67, 108, 101, 97, 114>>     \* "Clear"
Str_Snow == <<83, 110, 111, 119>>          \* "Snow"

\* Maanantai .. Sunnuntai
day_names_fi ==
    <<<<77, 97, 97, 110, 97, 110, 116, 97, 105>>,
      <<84, 105, 105, 115, 116, 97, 105>>,
      <<75, 101, 115, 107, 105, 118, 105, 105, 107, 107, 111>>,
      <<84, 111, 114, 115, 116, 97, 105>>,
      <<80, 101, 114, 106, 97, 110, 116, 97, 105>>,
      <<76, 97, 117, 97, 110, 116, 97, 105>>,
      <<83, 117, 110, 110, 117, 110, 116, 97, 105>>>>

\* '', Tammikuu .. Joulukuu
month_names_fi ==
    <<<<>>,
      <<84, 97, 109, 109, 105, 107, 117, 117>>,
      <<72, 101, 108, 109, 105, 107, 117, 117>>,
      <<77, 97, 97, 108, 105, 115, 107, 117, 117>>,
      <<72, 117, 104, 116, 105, 107, 117, 117>>,
      <<84, 111, 117, 107, 111, 107, 117, 117>>,
      <<75, 101, 115, 228, 107, 117, 117>>,
      <<72, 101, 105, 110, 228, 107, 117, 117>>,
      <<69, 108, 111, 107, 117, 117>>,
      <<83, 121, 121, 115, 107, 117, 117>>,
      <<76, 111, 107, 97, 107, 117, 117>>,
      <<77, 97, 114, 114, 97, 115, 107, 117, 117>>,
      <<74, 111, 117, 108, 117, 107, 117, 117>>>>

\* str(n) of a natural number
RECURSIVE Dec(_)
Dec(n) == IF n < 10 THEN <<48 + n>> ELSE Dec(n \div 10) \o <<48 + (n % 10)>>

\* date_str
DateStrFi(dt) ==
    day_names_fi[Weekday(dt) + 1] \o <<32>> \o Dec(dt.d) \o <<32>> \o month_names_fi[dt.m + 1]

\* the body of the current-weather API: temperatures and wind speed in
\* tenths, visibility in metres (hasVisibility: the key is there)
WeatherReports ==
    {[temp |-> 217, feels_like |-> 209, humidity |-> 40, wind_speed |-> 36,
      description |-> Str_clear, icon |-> Str_icon_sun, main |-> Str_Clear,
      pressure |-> 1013, hasVisibility |-> TRUE, visibility |-> 9999],
     [temp |-> 0 - 15, feels_like |-> 0 - 79, humidity |-> 93, wind_speed |-> 9,
      description |-> Str_snow, icon |-> Str_icon_snow, main |-> Str_Snow,
      pressure |-> 987, hasVisibility |-> FALSE, visibility |-> 0]}

\* what urlopen and json.loads deliver to fetch_weather
WxResponses ==
    {[kind |-> "ok", data |-> d] : d \in WeatherReports}
    \cup {[kind |-> "urlerror"], [kind |-> "badjson"]}

\* what they deliver to fetch_forecast in a run of the handler: no sample,
\* one sample, a sample without 'main' behind a complete one, and failures
WxForecastResponses ==
    {[kind |-> "ok", list |-> <<>>],
     [kind |-> "ok", list |-> <<Sample(Hours(5), 217, Str_icon_sun, Str_clear, TRUE)>>],
     [kind |-> "ok", list |-> <<Sample(Hours(5), 217, Str_icon_sun, Str_clear, TRUE),
                                Sample(Hours(30), 217, <<>>, <<>>, FALSE)>>],
     [kind |-> "urlerror", list |-> <<>>],
     [kind |-> "badjson", list |-> <<>>]}

\* weather_data of fetch_weather
FetchWeather(data) ==
    [temp |-> IntOfTenths(data.temp),
     feels_like |-> IntOfTenths(data.feels_like),
     humidity |-> data.humidity,
     wind |-> IntOfTenths(data.wind_speed),
     description |-> data.description,
     icon |-> data.icon,
     condition |-> data.main,
     pressure |-> data.pressure,
     visibility |-> (IF data.hasVisibility THEN data.visibility ELSE 0) \div 1000]

\* payload of the weather handler
WxMkPayload(current, fc, t) ==
    [current |-> current, forecast |-> fc, date |-> DateStrFi(UtcNow(t)),
     timestamp |-> Timestamp(t), source |-> Str_openweathermap,
     city |-> WEATHER_CITY]

InitWx ==
    /\ CalIdle /\ NormIdle
    /\ fcPc = "idle"
    /\ fcNow \in {0, Hours(3)}
    /\ fcResponse \in WxForecastResponses
    /\ fcList = <<>> /\ fcK = 0 /\ fcChosen = <<>> /\ forecast_data = <<>>
    /\ fcOut = <<>>
    /\ wxPc = "start"
    /\ wxResponse \in WxResponses
    /\ weather = <<>> /\ forecast = <<>> /\ wxNow = 0 /\ wxPayload = <<>>
    /\ wxPublished = <<>> /\ wxShadow = <<>> /\ wxStatusCode = 0 /\ wxBody = <<>>

\* mutant: the except branch reports success
WxReturn200(e) ==
    wxStatusCode' = 200 /\ wxBody' = [error |-> e] /\ wxPc' = "done"

\* lines 201-208: {'statusCode': 500, 'body': {'error': str(e)}}
WxReturn500(e) ==
    wxStatusCode' = 500 /\ wxBody' = [error |-> e] /\ wxPc' = "done"

\* line 152: weather = fetch_weather() returns; fetch_forecast is called
WxFetchWeather ==
    /\ wxPc = "start" /\ wxResponse.kind = "ok"
    /\ weather' = FetchWeather(wxResponse.data)
    /\ wxPc' = "forecast"
    /\ fcPc' = "start"
    /\ UNCHANGED <<wxResponse, forecast, wxNow, wxPayload, wxPublished, wxShadow,
                   wxStatusCode, wxBody>>
    /\ UNCHANGED <<fcNow, fcResponse, fcList, fcK, fcChosen, forecast_data, fcOut,
                   calVars, normVars>>

\* fetch_weather raises (lines 46-51)
WxFetchWeatherRaises ==
    /\ wxPc = "start" /\ wxResponse.kind # "ok"
    /\ WxReturn500("weather")
    /\ UNCHANGED <<wxResponse, weather, forecast, wxNow, wxPayload, wxPublished,
                   wxShadow, calVars, normVars, fcVars>>

\* lines 153-175: fetch_forecast has returned and the payload is built
WxBuild ==
    /\ wxPc = "forecast" /\ fcPc = "returned"
    /\ forecast' = fcOut
    /\ \E t \in 0..MaxTick :
        /\ wxNow' = t
        /\ wxPayload' = WxMkPayload(weather, forecast', t)
    /\ wxPc' = "publish"
    /\ UNCHANGED <<wxResponse, weather, wxPublished, wxShadow, wxStatusCode, wxBody,
                   calVars, normVars, fcVars>>

\* publish_to_iot(topic, payload) returns
WxPublish ==
    /\ wxPc = "publish"
    /\ wxPublished' = Append(wxPublished, wxPayload)
    /\ wxPc' = "shadow"
    /\ UNCHANGED <<wxResponse, weather, forecast, wxNow, wxPayload, wxShadow,
                   wxStatusCode, wxBody, calVars, normVars, fcVars>>

\* publish_to_iot raises
WxPublishRaises ==
    /\ wxPc = "publish"
    /\ WxReturn500("publish")
    /\ UNCHANGED <<wxResponse, weather, forecast, wxNow, wxPayload, wxPublished,
                   wxShadow, calVars, normVars, fcVars>>

\* update_shadow(payload) returns and the handler returns 200
WxUpdateShadow ==
    /\ wxPc = "shadow"
    /\ wxShadow' = Append(wxShadow, wxPayload)
    /\ wxStatusCode' = 200
    /\ wxBody' = [temperature |-> weather.temp, forecast_count |-> Len(forecast)]
    /\ wxPc' = "done"
    /\ UNCHANGED <<wxResponse, weather, forecast, wxNow, wxPayload, wxPublished,
                   calVars, normVars, fcVars>>

\* update_shadow raises
WxShadowRaises ==
    /\ wxPc = "shadow"
    /\ WxReturn500("shadow")
    /\ UNCHANGED <<wxResponse, weather, forecast, wxNow, wxPayload, wxPublished,
                   wxShadow, calVars, normVars, fcVars>>

NextWx ==
    \/ WxFetchWeather \/ WxFetchWeatherRaises
    \/ FcFetch \/ FcFetchFails \/ FcSelect \/ FcReturn
    \/ WxBuild \/ WxPublish \/ WxPublishRaises \/ WxUpdateShadow \/ WxShadowRaises

SpecWx == InitWx /\ [][NextWx]_vars

\* fetch_forecast went through one of its except branches: the fetch or the
\* parsing failed, or a sample chosen for an offset lacks a field
ForecastFailed ==
    /\ fcPc \notin {"idle", "start", "select"}
    /\ \/ fcResponse.kind # "ok"
       \/ \E k \in 1..Len(fcChosen) :
            fcChosen[k] # 0 /\ ~fcList[fcChosen[k]].complete

\* C14: a failure inside fetch_forecast makes it return the empty list, not
\* raise; the handler then builds its payload with forecast = [], and
\* when it has returned, either the status is 200 with forecast_count = 0
\* and that payload was published and written to the shadow, or the status
\* is 500 and the error is one of publish_to_iot or update_shadow.
C14_ForecastFailureIsSilent ==
    /\ fcPc \in {"idle", "start", "select", "returned"}
    /\ ForecastFailed =>
         /\ fcPc = "returned" /\ fcOut = <<>>
         /\ wxPc \in {"forecast", "publish", "shadow", "done"}
         /\ wxPc # "forecast" =>
              /\ forecast = <<>>
              /\ wxPayload.forecast = <<>> /\ wxPayload.current = weather
         /\ wxPc = "done" =>
              IF wxStatusCode = 200
              THEN /\ wxBody.forecast_count = 0
                   /\ wxBody.temperature = weather.temp
                   /\ wxPublished = <<wxPayload>> /\ wxShadow = <<wxPayload>>
              ELSE /\ wxStatusCode = 500
                   /\ wxBody.error \in {"publish", "shadow"}

\* C14 witness: three slots had been collected when a sample without
\* 'main' was chosen; the handler has returned 200 with forecast_count 0
\* and has published and stored a payload with an empty forecast.
C14_Witness ==
    /\ wxPc = "done" /\ wxStatusCode = 200
    /\ fcResponse.kind = "ok" /\ Len(forecast_data) = 3 /\ ForecastFailed
    /\ wxBody.forecast_count = 0
    /\ Len(wxPublished) = 1 /\ wxPublished[1].forecast = <<>>
    /\ wxShadow = wxPublished

(***************************************************************************)
(* The two handlers side by side: a run is an invocation of the calendar   *)
(* Lambda or an invocation of the weather Lambda.                          *)
(***************************************************************************)
InitHandlers == Init \/ InitWx

NextHandlers == Next \/ NextWx

SpecHandlers == InitHandlers /\ [][NextHandlers]_vars

\* one step of a handler at position pos (pos2 after the step), with the
\* payloads published (pub, pub2) and written to the shadow (sh, sh2), the
\* status code after the step and the payload pl of the run
DeliveryStep(pos, pos2, pub, pub2, sh, sh2, status2, pl) ==
    /\ pub2 # pub =>
         /\ pos = "publish" /\ pos2 = "shadow"
         /\ pub = <<>> /\ pub2 = <<pl>>
         /\ sh = <<>> /\ sh2 = <<>> /\ status2 = 0
    /\ sh2 # sh =>
         /\ pos = "shadow" /\ pos2 = "done"
         /\ pub = <<pl>> /\ pub2 = pub
         /\ sh = <<>> /\ sh2 = <<pl>> /\ status2 = 200
    /\ pos2 = "shadow" /\ pos # "shadow" => pos = "publish" /\ pub2 # pub
    /\ pos = "publish" /\ pub2 = pub /\ pos2 # pos =>
         pos2 = "done" /\ status2 = 500 /\ sh2 = <<>>
    /\ pos = "shadow" /\ sh2 = sh /\ pos2 # pos =>
         pos2 = "done" /\ status2 = 500 /\ pub2 = <<pl>>
    /\ status2 = 200 => pos2 = "done" /\ pub2 = <<pl>> /\ sh2 = <<pl>>
    /\ pos2 = "done" => status2 \in {200, 500}
    /\ pos2 = "done" /\ (pub2 = <<>> \/ sh2 = <<>>) => status2 = 500

\* C15: in the calendar and in the weather handler the payload is published
\* once and before the shadow is written; the shadow update is attempted
\* only behind a publish that returned; the status is 200 only when both
\* have returned, and 500 when either raised, in which case a publish that
\* was delivered stays delivered.
C15_DeliveryOrder ==
    [][/\ DeliveryStep(pc, pc', published, published', shadow, shadow',
                       statusCode', payload)
       /\ DeliveryStep(wxPc, wxPc', wxPublished, wxPublished', wxShadow, wxShadow',
                       wxStatusCode', wxPayload)
      ]_vars

\* C15 witness: the calendar handler has returned 500 although its payload
\* was published, because the shadow update raised.
C15_Witness ==
    /\ pc = "done" /\ statusCode = 500
    /\ published = <<payload>> /\ payload # NoPayload /\ shadow = <<>>

====
